---- MODULE Spec2Model ----
(***************************************************************************)
(* Model of the AMD64 C bridge src/kernel/arch/amd64/sys_x86.c.            *)
(*                                                                         *)
(* A 64-bit (or 32-bit) machine word is the set of the positions of its    *)
(* one bits, so that the bitwise operators of the C code are set           *)
(* operations and no value exceeds the range of the checker's integers.   *)
(*                                                                         *)
(* Two specifications share the variables:                                 *)
(*   Spec      the register-touching operations on one CPU, started from   *)
(*             a sampled register state;                                   *)
(*   SpecPure  the calls of the pure predicates and of the page-table flag *)
(*             translators, with inputs drawn from sampled sets;           *)
(*   SpecHalt  the IPI halt handler, instruction by instruction, with the  *)
(*             events that wake a halted CPU.                              *)
(***************************************************************************)
EXTENDS Integers, Sequences, FiniteSets, TLC

VARIABLES cr0, cr3, cr4, msr, xcr0, out, log, call, prev, pc, intf, wakeups

vars == <<cr0, cr3, cr4, msr, xcr0, out, log, call, prev, pc, intf, wakeups>>

(***************************************************************************)
(* Bounds of the sampled input sets.                                       *)
(***************************************************************************)
LevelSlack == 1
NArchBits == 5
NCr0Bits == 2
MaxLeaf == 2
MaxSubleaf == 1
MaxTargets == 2
MaxWakeups == 2

(***************************************************************************)
(* Machine words as bit sets.                                              *)
(***************************************************************************)
Bits(n) == {i \in 0..30 : (n \div (2 ^ i)) % 2 = 1}

BitAnd(a, b) == a \cap b

BitOr(a, b) == a \cup b

BitNot32(a) == (0..31) \ a

BitNot64(a) == (0..63) \ a

Shr(a, n) == {i - n : i \in {j \in a : j >= n}}

Shl64(a, n) == {i + n : i \in {j \in a : j + n <= 63}}

Trunc32(a) == a \cap (0..31)

\* conversion of a (signed) int to uint64_t: the sign bit is replicated
SignExtend32(a) == IF 31 \in a THEN a \cup (32..63) ELSE a

NonZero(a) == a # {}

(***************************************************************************)
(* Constants of the source.                                                *)
(***************************************************************************)
X86_MMU_PG_P == Bits(1)
X86_MMU_PG_RW == Bits(2)
X86_MMU_PG_U == Bits(4)
X86_MMU_PG_PS == Bits(128)

X86_MSR_IA32_PAT == 631
X86_MSR_IA32_MTRR_CAP == 254
X86_MSR_IA32_MTRR_DEF == 767

\* 0x0007010600070106: 0x00070106 = 459014 in both halves
X86_PAT_DEFAULT_VALUE == BitOr(Shl64(Bits(459014), 32), Bits(459014))

MsrIndices == {X86_MSR_IA32_PAT, X86_MSR_IA32_MTRR_CAP, X86_MSR_IA32_MTRR_DEF}

(***************************************************************************)
(* Instruction primitives.  An executed instruction is logged as a record  *)
(* [ins, a, c, v]: its name, its inputs (register index, leaf, sub-leaf)   *)
(* and the value it moved.                                                 *)
(***************************************************************************)
Ins(name, a, c, v) == [ins |-> name, a |-> a, c |-> c, v |-> v]

\* rdmsr: the hardware hands the value over in EDX:EAX
rdmsr(m, index) ==
    LET low == Trunc32(m[index])
        high == Trunc32(Shr(m[index], 32))
    IN  BitOr(Shl64(high, 32), low)

\* a wrmsr that loads only EAX and leaves EDX zero
wrmsr_low_only(m, index, value) ==
    [m EXCEPT ![index] = Trunc32(value)]

\* wrmsr: the value is split into EAX and EDX, the hardware stores EDX:EAX
wrmsr(m, index, value) ==
    LET low == BitAnd(value, 0..31)
        high == Trunc32(Shr(value, 32))
    IN  [m EXCEPT ![index] = BitOr(Shl64(high, 32), low)]

(***************************************************************************)
(* Call records.                                                           *)
(***************************************************************************)
NoCall == [op |-> "none"]

NoOut == [eax |-> {}, ebx |-> {}, ecx |-> {}, edx |-> {}]

(***************************************************************************)
(* Sampled register states.                                                *)
(***************************************************************************)
Cr0BitOrder == <<16, 0, 31, 63, 5, 3, 29, 30>>

Cr0Samples == SUBSET {Cr0BitOrder[i] : i \in 1..NCr0Bits}

Cr3Samples == {Bits(4096), BitOr(Shl64(Bits(1), 40), Bits(8192 + 8))}

Cr4Samples == {Bits(32), Bits(32 + 128 + 512)}

\* the power-on PAT 0x0007040600070406 and an all-zero PAT
PatSamples == {BitOr(Shl64(Bits(459782), 32), Bits(459782)), {}}

\* write-combining and fixed-range support, 8 variable ranges
MtrrCapSamples == {Bits(1024 + 256 + 8)}

MtrrDefSamples == {Bits(2048 + 1024 + 255), Bits(2048 + 6), Bits(1024 + 4)}

Xcr0Samples == {Bits(3), Bits(7), BitOr(Bits(3), {62})}

Leaves == 0..MaxLeaf

Subleaves == 0..MaxSubleaf

Targets == 0..MaxTargets

\* what the CPUID instruction may produce: ECX varies in the XSAVE bit (26)
CpuidOutputs ==
    {[eax |-> Bits(198313), ebx |-> Bits(2048), ecx |-> c, edx |-> {0, 25, 26}] :
        c \in {{0}, {0, 26, 27}, {0, 27}}}

TlbVaddrSamples == {Bits(4096), 47..63}

(***************************************************************************)
(* Register-touching operations (specification Spec).  Every operation is  *)
(* one atomic step of the calling CPU; log is the instruction sequence of  *)
(* the last operation.                                                     *)
(***************************************************************************)
HwInit ==
    /\ cr0 \in Cr0Samples
    /\ cr3 \in Cr3Samples
    /\ cr4 \in Cr4Samples
    /\ \E p \in PatSamples, c \in MtrrCapSamples, d \in MtrrDefSamples :
           msr = [i \in MsrIndices |->
                    IF i = X86_MSR_IA32_PAT THEN p
                    ELSE IF i = X86_MSR_IA32_MTRR_CAP THEN c ELSE d]
    /\ xcr0 \in Xcr0Samples

Init ==
    /\ HwInit
    /\ out = NoOut
    /\ log = <<>>
    /\ call = NoCall
    /\ prev = NoCall
    /\ pc = "idle"
    /\ intf = TRUE
    /\ wakeups = 0

sys_x86_kernel_cr3 ==
    /\ log' = <<Ins("mov_from_cr3", 0, 0, cr3)>>
    /\ call' = [op |-> "kernel_cr3", ret |-> cr3]
    /\ UNCHANGED <<cr0, cr3, cr4, msr, xcr0, out, prev, pc, intf, wakeups>>

\* the initialisation with fninit issued before CR4 is configured
sys_x86_extended_register_init_fninit_first ==
    LET old == cr4
        new == BitOr(old, SignExtend32(BitOr(Shl64(Bits(1), 9), Shl64(Bits(1), 18))))
    IN  /\ cr4' = new
        /\ log' = <<Ins("fninit", 0, 0, {}), Ins("mov_from_cr4", 0, 0, old),
                    Ins("mov_to_cr4", 0, 0, new)>>
        /\ call' = [op |-> "extended_register_init"]
        /\ UNCHANGED <<cr0, cr3, msr, xcr0, out, prev, pc, intf, wakeups>>

sys_x86_extended_register_init ==
    LET old == cr4
        new == BitOr(old, SignExtend32(BitOr(Shl64(Bits(1), 9), Shl64(Bits(1), 18))))
    IN  /\ cr4' = new
        /\ log' = <<Ins("mov_from_cr4", 0, 0, old), Ins("mov_to_cr4", 0, 0, new),
                    Ins("fninit", 0, 0, {})>>
        /\ call' = [op |-> "extended_register_init"]
        /\ UNCHANGED <<cr0, cr3, msr, xcr0, out, prev, pc, intf, wakeups>>

\* the size computed with the AVX test on XCR0 bit 1 (SSE) instead of bit 2
sys_x86_extended_register_size_sse_bit ==
    \E r \in CpuidOutputs, garbage \in Subleaves :
        LET cpuid == Ins("cpuid", 1, garbage, r)
            eax == Trunc32(xcr0)
            edx == Trunc32(Shr(xcr0, 32))
            x == BitOr(Shl64(edx, 32), eax)
        IN  /\ IF ~NonZero(BitAnd(r.ecx, Shl64(Bits(1), 26)))
               THEN /\ log' = <<cpuid>>
                    /\ call' = [op |-> "extended_register_size", ret |-> 512]
               ELSE /\ log' = <<cpuid, Ins("xgetbv", 0, 0, x)>>
                    /\ call' = [op |-> "extended_register_size",
                                ret |-> IF NonZero(BitAnd(x, Shl64(Bits(1), 1)))
                                        THEN 512 + 256 ELSE 512]
            /\ UNCHANGED <<cr0, cr3, cr4, msr, xcr0, out, prev, pc, intf, wakeups>>

\* CPUID leaf 1 (ECX is not loaded by the code: it holds whatever it held),
\* then, if ECX bit 26 is set, xgetbv with ECX = 0
sys_x86_extended_register_size ==
    \E r \in CpuidOutputs, garbage \in Subleaves :
        LET cpuid == Ins("cpuid", 1, garbage, r)
            eax == Trunc32(xcr0)
            edx == Trunc32(Shr(xcr0, 32))
            x == BitOr(Shl64(edx, 32), eax)
        IN  /\ IF ~NonZero(BitAnd(r.ecx, Shl64(Bits(1), 26)))
               THEN /\ log' = <<cpuid>>
                    /\ call' = [op |-> "extended_register_size", ret |-> 512]
               ELSE /\ log' = <<cpuid, Ins("xgetbv", 0, 0, x)>>
                    /\ call' = [op |-> "extended_register_size",
                                ret |-> IF NonZero(BitAnd(x, Shl64(Bits(1), 2)))
                                        THEN 512 + 256 ELSE 512]
            /\ UNCHANGED <<cr0, cr3, cr4, msr, xcr0, out, prev, pc, intf, wakeups>>

\* the probe without its leaf-0 guard
sys_x86_get_cpuid_subleaf_unguarded(leaf, subleaf) ==
    \E r \in CpuidOutputs :
        /\ log' = <<Ins("cpuid", leaf, subleaf, r)>>
        /\ out' = [eax |-> r.eax, ebx |-> r.ebx, ecx |-> r.ecx, edx |-> r.edx]
        /\ call' = [op |-> "get_cpuid_subleaf", leaf |-> leaf,
                    subleaf |-> subleaf, ret |-> TRUE]
        /\ UNCHANGED <<cr0, cr3, cr4, msr, xcr0, prev, pc, intf, wakeups>>

sys_x86_get_cpuid_subleaf(leaf, subleaf) ==
    IF leaf = 0
    THEN /\ log' = <<>>
         /\ call' = [op |-> "get_cpuid_subleaf", leaf |-> leaf,
                     subleaf |-> subleaf, ret |-> FALSE]
         /\ UNCHANGED <<cr0, cr3, cr4, msr, xcr0, out, prev, pc, intf, wakeups>>
    ELSE \E r \in CpuidOutputs :
             /\ log' = <<Ins("cpuid", leaf, subleaf, r)>>
             /\ out' = [eax |-> r.eax, ebx |-> r.ebx, ecx |-> r.ecx, edx |-> r.edx]
             /\ call' = [op |-> "get_cpuid_subleaf", leaf |-> leaf,
                         subleaf |-> subleaf, ret |-> TRUE]
             /\ UNCHANGED <<cr0, cr3, cr4, msr, xcr0, prev, pc, intf, wakeups>>

sys_x86_mmu_early_init ==
    LET old == cr0
        new == BitOr(old, Shl64(Bits(1), 16))
    IN  /\ msr' = wrmsr(msr, X86_MSR_IA32_PAT, X86_PAT_DEFAULT_VALUE)
        /\ cr0' = new
        /\ log' = <<Ins("wrmsr", X86_MSR_IA32_PAT, 0, X86_PAT_DEFAULT_VALUE),
                    Ins("mov_from_cr0", 0, 0, old), Ins("mov_to_cr0", 0, 0, new)>>
        /\ call' = [op |-> "mmu_early_init"]
        /\ UNCHANGED <<cr3, cr4, xcr0, out, prev, pc, intf, wakeups>>

sys_x86_mmu_percpu_init ==
    LET mtrr_cap == rdmsr(msr, X86_MSR_IA32_MTRR_CAP)
    IN  /\ msr' = wrmsr(msr, X86_MSR_IA32_PAT, X86_PAT_DEFAULT_VALUE)
        /\ log' = <<Ins("wrmsr", X86_MSR_IA32_PAT, 0, X86_PAT_DEFAULT_VALUE),
                    Ins("rdmsr", X86_MSR_IA32_MTRR_CAP, 0, mtrr_cap)>>
        /\ call' = [op |-> "mmu_percpu_init"]
        /\ UNCHANGED <<cr0, cr3, cr4, xcr0, out, prev, pc, intf, wakeups>>

sys_x86_mmu_init ==
    /\ log' = <<>>
    /\ call' = [op |-> "mmu_init"]
    /\ UNCHANGED <<cr0, cr3, cr4, msr, xcr0, out, prev, pc, intf, wakeups>>

\* the flush that reloads CR3 with only the page-aligned table address
sys_x86_tlb_flush_global_aligned ==
    LET new == BitAnd(cr3, BitNot64(Bits(4095)))
    IN  /\ cr3' = new
        /\ log' = <<Ins("mov_from_cr3", 0, 0, cr3), Ins("mov_to_cr3", 0, 0, new)>>
        /\ call' = [op |-> "tlb_flush_global"]
        /\ UNCHANGED <<cr0, cr4, msr, xcr0, out, prev, pc, intf, wakeups>>

sys_x86_tlb_flush_global ==
    /\ cr3' = cr3
    /\ log' = <<Ins("mov_from_cr3", 0, 0, cr3), Ins("mov_to_cr3", 0, 0, cr3)>>
    /\ call' = [op |-> "tlb_flush_global"]
    /\ UNCHANGED <<cr0, cr4, msr, xcr0, out, prev, pc, intf, wakeups>>

sys_x86_tlb_flush_one(vaddr) ==
    /\ log' = <<Ins("invlpg", 0, 0, vaddr)>>
    /\ call' = [op |-> "tlb_flush_one", vaddr |-> vaddr]
    /\ UNCHANGED <<cr0, cr3, cr4, msr, xcr0, out, prev, pc, intf, wakeups>>

\* the default type set with the mask 0x0F instead of 0xFF
sys_x86_mmu_mem_type_init_nibble_mask ==
    LET mtrr_def_type == rdmsr(msr, X86_MSR_IA32_MTRR_DEF)
        rd == Ins("rdmsr", X86_MSR_IA32_MTRR_DEF, 0, mtrr_def_type)
        new == BitOr(BitAnd(mtrr_def_type, BitNot64(Bits(15))), Bits(6))
    IN  /\ IF NonZero(BitAnd(mtrr_def_type, Bits(2048)))
           THEN /\ msr' = wrmsr(msr, X86_MSR_IA32_MTRR_DEF, new)
                /\ log' = <<rd, Ins("wrmsr", X86_MSR_IA32_MTRR_DEF, 0, new)>>
           ELSE /\ msr' = msr
                /\ log' = <<rd>>
        /\ call' = [op |-> "mmu_mem_type_init"]
        /\ UNCHANGED <<cr0, cr3, cr4, xcr0, out, prev, pc, intf, wakeups>>

sys_x86_mmu_mem_type_init ==
    LET mtrr_def_type == rdmsr(msr, X86_MSR_IA32_MTRR_DEF)
        rd == Ins("rdmsr", X86_MSR_IA32_MTRR_DEF, 0, mtrr_def_type)
        new == BitOr(BitAnd(mtrr_def_type, BitNot64(Bits(255))), Bits(6))
    IN  /\ IF NonZero(BitAnd(mtrr_def_type, Bits(2048)))
           THEN /\ msr' = wrmsr(msr, X86_MSR_IA32_MTRR_DEF, new)
                /\ log' = <<rd, Ins("wrmsr", X86_MSR_IA32_MTRR_DEF, 0, new)>>
           ELSE /\ msr' = msr
                /\ log' = <<rd>>
        /\ call' = [op |-> "mmu_mem_type_init"]
        /\ UNCHANGED <<cr0, cr3, cr4, xcr0, out, prev, pc, intf, wakeups>>

\* the synchronisation without its single-CPU early return
sys_x86_pat_sync_no_fast_path(targets) ==
    /\ log' = <<Ins("rdmsr", X86_MSR_IA32_PAT, 0, rdmsr(msr, X86_MSR_IA32_PAT))>>
    /\ call' = [op |-> "pat_sync", targets |-> targets]
    /\ UNCHANGED <<cr0, cr3, cr4, msr, xcr0, out, prev, pc, intf, wakeups>>

sys_x86_pat_sync(targets) ==
    /\ IF targets = 1
       THEN log' = <<>>
       ELSE log' = <<Ins("rdmsr", X86_MSR_IA32_PAT, 0, rdmsr(msr, X86_MSR_IA32_PAT))>>
    /\ call' = [op |-> "pat_sync", targets |-> targets]
    /\ UNCHANGED <<cr0, cr3, cr4, msr, xcr0, out, prev, pc, intf, wakeups>>

Next ==
    \/ sys_x86_kernel_cr3
    \/ sys_x86_extended_register_init
    \/ sys_x86_extended_register_size
    \/ \E leaf \in Leaves, subleaf \in Subleaves : sys_x86_get_cpuid_subleaf(leaf, subleaf)
    \/ sys_x86_mmu_early_init
    \/ sys_x86_mmu_percpu_init
    \/ sys_x86_mmu_init
    \/ sys_x86_tlb_flush_global
    \/ \E vaddr \in TlbVaddrSamples : sys_x86_tlb_flush_one(vaddr)
    \/ sys_x86_mmu_mem_type_init
    \/ \E targets \in Targets : sys_x86_pat_sync(targets)

Spec == Init /\ [][Next]_vars

(***************************************************************************)
(* The IPI halt handler (specification SpecHalt).  pc is the position of   *)
(* the CPU: "idle" outside the handler, "cli" and "hlt" before these       *)
(* instructions, "halted" while the CPU is stopped in hlt, "loop" at the   *)
(* back edge of while (1), "returned" after the function's end.  intf is   *)
(* RFLAGS.IF; wakeups counts the events that ended a halt.                  *)
(***************************************************************************)
InitHalt ==
    /\ HwInit
    /\ out = NoOut
    /\ log = <<>>
    /\ call = NoCall
    /\ prev = NoCall
    /\ pc = "idle"
    /\ intf \in BOOLEAN
    /\ wakeups = 0

Regs == <<cr0, cr3, cr4, msr, xcr0, out, prev>>

\* the handler is entered (IPI vector or direct call)
sys_x86_ipi_halt_handler ==
    /\ pc = "idle"
    /\ pc' = "cli"
    /\ log' = <<>>
    /\ call' = [op |-> "ipi_halt_handler"]
    /\ UNCHANGED <<Regs, intf, wakeups>>

cli ==
    /\ pc = "cli"
    /\ intf' = FALSE
    /\ pc' = "hlt"
    /\ log' = Append(log, Ins("cli", 0, 0, {}))
    /\ UNCHANGED <<Regs, call, wakeups>>

hlt ==
    /\ pc = "hlt"
    /\ pc' = "halted"
    /\ log' = Append(log, Ins("hlt", 0, 0, {}))
    /\ UNCHANGED <<Regs, call, intf, wakeups>>

\* an event the halted CPU cannot mask (NMI, SMI) is served and returns to
\* the instruction after hlt with RFLAGS restored
WakeUp ==
    /\ pc = "halted"
    /\ wakeups < MaxWakeups
    /\ wakeups' = wakeups + 1
    /\ pc' = "loop"
    /\ UNCHANGED <<Regs, call, intf, log>>

\* a handler that halts once and returns after the wake-up
halt_once_then_return ==
    /\ pc = "loop"
    /\ pc' = "returned"
    /\ UNCHANGED <<Regs, call, intf, wakeups, log>>

\* while (1): the back edge leads to hlt again
while_1 ==
    /\ pc = "loop"
    /\ pc' = "hlt"
    /\ UNCHANGED <<Regs, call, intf, wakeups, log>>

HandlerStep == cli \/ hlt \/ while_1

NextHalt ==
    \/ sys_x86_ipi_halt_handler
    \/ cli
    \/ hlt
    \/ while_1
    \/ WakeUp

\* a CPU that is not halted executes its next instruction
SpecHalt == InitHalt /\ [][NextHalt]_vars /\ WF_vars(HandlerStep)

(***************************************************************************)
(* Pure predicates and page-table flag translators.                        *)
(***************************************************************************)
sys_x86_is_vaddr_canonical(vaddr) ==
    LET high_bits == Shr(vaddr, 48)
    IN  (high_bits = {}) \/ (high_bits = Bits(65535))

\* the decode with the user bit read from PG_WT (0x008) instead of PG_U
sys_x86_page_table_mmu_pt_flags_to_mmu_flags_wt(flags, level) ==
    LET m1 == IF NonZero(BitAnd(flags, X86_MMU_PG_P)) THEN Bits(1) ELSE {}
        m2 == IF NonZero(BitAnd(flags, X86_MMU_PG_RW)) THEN BitOr(m1, Bits(2)) ELSE m1
        m3 == IF NonZero(BitAnd(flags, Bits(8))) THEN BitOr(m2, Bits(4)) ELSE m2
    IN  m3

sys_x86_page_table_mmu_pt_flags_to_mmu_flags(flags, level) ==
    LET m1 == IF NonZero(BitAnd(flags, X86_MMU_PG_P)) THEN Bits(1) ELSE {}
        m2 == IF NonZero(BitAnd(flags, X86_MMU_PG_RW)) THEN BitOr(m1, Bits(2)) ELSE m1
        m3 == IF NonZero(BitAnd(flags, X86_MMU_PG_U)) THEN BitOr(m2, Bits(4)) ELSE m2
    IN  m3

sys_x86_page_table_mmu_terminal_flags(level, flags) ==
    LET p1 == IF NonZero(BitAnd(flags, Bits(1))) THEN X86_MMU_PG_P ELSE {}
        p2 == IF NonZero(BitAnd(flags, Bits(2))) THEN BitOr(p1, X86_MMU_PG_RW) ELSE p1
        p3 == IF NonZero(BitAnd(flags, Bits(4))) THEN BitOr(p2, X86_MMU_PG_U) ELSE p2
    IN  p3

\* the predicate with the large-page levels taken to be 2 and 3
sys_x86_page_table_mmu_supports_page_size_pdpt_pml4(level) ==
    CASE level = 3 -> TRUE
      [] level = 2 -> TRUE
      [] OTHER -> FALSE

sys_x86_page_table_mmu_supports_page_size(level) ==
    CASE level = 2 -> TRUE
      [] level = 1 -> TRUE
      [] OTHER -> FALSE

\* the split with a zero-extended mask (~0x080U)
sys_x86_page_table_mmu_split_flags_unsigned_mask(level, flags) ==
    BitAnd(flags, BitNot32(X86_MMU_PG_PS))

\* ~X86_MMU_PG_PS is an int; it is sign-extended to 64 bits before the AND
sys_x86_page_table_mmu_split_flags(level, flags) ==
    BitAnd(flags, SignExtend32(BitNot32(X86_MMU_PG_PS)))

sys_x86_page_table_ept_supports_page_size(level) ==
    sys_x86_page_table_mmu_supports_page_size(level)

sys_x86_page_table_ept_terminal_flags(level, flags) ==
    LET base == Bits(3)
    IN  IF NonZero(BitAnd(flags, Bits(4))) THEN BitOr(base, Bits(1)) ELSE base

\* the decode without its write bit
sys_x86_page_table_ept_pt_flags_to_mmu_flags_no_write(flags, level) ==
    LET m1 == IF NonZero(BitAnd(flags, Bits(1))) THEN Bits(1) ELSE {}
        m3 == IF NonZero(BitAnd(flags, Bits(4))) THEN BitOr(m1, Bits(4)) ELSE m1
    IN  m3

sys_x86_page_table_ept_pt_flags_to_mmu_flags(flags, level) ==
    LET m1 == IF NonZero(BitAnd(flags, Bits(1))) THEN Bits(1) ELSE {}
        m2 == IF NonZero(BitAnd(flags, Bits(2))) THEN BitOr(m1, Bits(2)) ELSE m1
        m3 == IF NonZero(BitAnd(flags, Bits(4))) THEN BitOr(m2, Bits(4)) ELSE m2
    IN  m3

(***************************************************************************)
(* Sampled inputs of the pure functions.                                   *)
(***************************************************************************)
Levels == (0 - LevelSlack)..(4 + LevelSlack)

HighPatterns == {{}, 48..63, {48}, {63}, 48..62}

VaddrSamples ==
    {BitOr(BitOr(hi, b47), lo) : hi \in HighPatterns, b47 \in {{}, {47}}, lo \in {{}, 0..46}}

PortableFlagSamples ==
    {BitOr(f, e) : f \in SUBSET {0, 1, 2}, e \in {{}, {3}, {31}}}

ArchBitOrder == <<7, 0, 1, 2, 63, 8, 5, 12, 3, 40>>

ArchFlagSamples == SUBSET {ArchBitOrder[i] : i \in 1..NArchBits}

(***************************************************************************)
(* Calls of the pure functions (specification SpecPure).  call is the last *)
(* call; prev is the terminal-flags call whose result (with or without the *)
(* PS bit) the last call was given, if it was given one.                   *)
(***************************************************************************)
InitPure ==
    /\ cr0 = {0, 31}
    /\ cr3 = Bits(4096)
    /\ cr4 = Bits(32)
    /\ msr = [i \in MsrIndices |-> {}]
    /\ xcr0 = Bits(1)
    /\ out = NoOut
    /\ log = <<>>
    /\ call = NoCall
    /\ prev = NoCall
    /\ pc = "idle"
    /\ intf = TRUE
    /\ wakeups = 0

Hw == <<cr0, cr3, cr4, msr, xcr0, out, log, pc, intf, wakeups>>

\* the architectural flags a caller may pass: sampled ones, or the result of
\* the terminal-flags call just made, as it is or marked as a large page
ArchInputs(terminal) ==
    ArchFlagSamples \cup
        (IF call.op = terminal THEN {call.ret, BitOr(call.ret, X86_MMU_PG_PS)} ELSE {})

Origin(terminal, level, flags) ==
    IF /\ call.op = terminal
       /\ call.level = level
       /\ flags \in {call.ret, BitOr(call.ret, X86_MMU_PG_PS)}
    THEN call
    ELSE NoCall

Call_is_vaddr_canonical(vaddr) ==
    /\ call' = [op |-> "is_vaddr_canonical", vaddr |-> vaddr,
                ret |-> sys_x86_is_vaddr_canonical(vaddr)]
    /\ prev' = NoCall
    /\ UNCHANGED Hw

Call_mmu_terminal_flags(level, flags) ==
    /\ call' = [op |-> "mmu_terminal_flags", level |-> level, flags |-> flags,
                ret |-> sys_x86_page_table_mmu_terminal_flags(level, flags)]
    /\ prev' = NoCall
    /\ UNCHANGED Hw

Call_mmu_supports_page_size(level) ==
    /\ call' = [op |-> "mmu_supports_page_size", level |-> level,
                ret |-> sys_x86_page_table_mmu_supports_page_size(level)]
    /\ prev' = NoCall
    /\ UNCHANGED Hw

Call_mmu_split_flags(level, flags) ==
    /\ call' = [op |-> "mmu_split_flags", level |-> level, flags |-> flags,
                ret |-> sys_x86_page_table_mmu_split_flags(level, flags)]
    /\ prev' = Origin("mmu_terminal_flags", level, flags)
    /\ UNCHANGED Hw

Call_mmu_pt_flags_to_mmu_flags(flags, level) ==
    /\ call' = [op |-> "mmu_pt_flags_to_mmu_flags", level |-> level, flags |-> flags,
                ret |-> sys_x86_page_table_mmu_pt_flags_to_mmu_flags(flags, level)]
    /\ prev' = Origin("mmu_terminal_flags", level, flags)
    /\ UNCHANGED Hw

Call_ept_supports_page_size(level) ==
    /\ call' = [op |-> "ept_supports_page_size", level |-> level,
                ret |-> sys_x86_page_table_ept_supports_page_size(level)]
    /\ prev' = NoCall
    /\ UNCHANGED Hw

Call_ept_terminal_flags(level, flags) ==
    /\ call' = [op |-> "ept_terminal_flags", level |-> level, flags |-> flags,
                ret |-> sys_x86_page_table_ept_terminal_flags(level, flags)]
    /\ prev' = NoCall
    /\ UNCHANGED Hw

Call_ept_pt_flags_to_mmu_flags(flags, level) ==
    /\ call' = [op |-> "ept_pt_flags_to_mmu_flags", level |-> level, flags |-> flags,
                ret |-> sys_x86_page_table_ept_pt_flags_to_mmu_flags(flags, level)]
    /\ prev' = Origin("ept_terminal_flags", level, flags)
    /\ UNCHANGED Hw

NextPure ==
    \/ \E vaddr \in VaddrSamples : Call_is_vaddr_canonical(vaddr)
    \/ \E level \in Levels, flags \in PortableFlagSamples :
           Call_mmu_terminal_flags(level, flags)
    \/ \E level \in Levels : Call_mmu_supports_page_size(level)
    \/ \E level \in Levels, flags \in ArchInputs("mmu_terminal_flags") :
           Call_mmu_split_flags(level, flags)
    \/ \E level \in Levels, flags \in ArchInputs("mmu_terminal_flags") :
           Call_mmu_pt_flags_to_mmu_flags(flags, level)
    \/ \E level \in Levels : Call_ept_supports_page_size(level)
    \/ \E level \in Levels, flags \in PortableFlagSamples :
           Call_ept_terminal_flags(level, flags)
    \/ \E level \in Levels, flags \in ArchInputs("ept_terminal_flags") :
           Call_ept_pt_flags_to_mmu_flags(flags, level)

SpecPure == InitPure /\ [][NextPure]_vars

(***************************************************************************)
(* Claims about the register-touching operations (checked under Spec).     *)
(***************************************************************************)

\* 0x0007010600070106 written out bit by bit
PatExpected == {1, 2, 8, 16, 17, 18, 33, 34, 40, 48, 49, 50}

\* C1: after mmu_early_init(), from any starting register state, CR0 has
\* bit 16 (WP) set and IA32_PAT (MSR 0x277) holds exactly 0x0007010600070106.
C1_EarlyInitSetsWpAndPat ==
    call.op = "mmu_early_init" =>
        /\ 16 \in cr0
        /\ msr[631] = PatExpected

\* mmu_early_init has run on a CPU whose CR0 had WP clear
C1_Witness ==
    /\ call.op = "mmu_early_init"
    /\ log[2].ins = "mov_from_cr0"
    /\ 16 \notin log[2].v
    /\ 16 \in cr0

\* C8: cpuid(leaf, subleaf) with leaf = 0 returns failure, executes no CPUID
\* and leaves the output record alone; with a nonzero leaf it executes CPUID
\* with (leaf, subleaf), stores the four produced registers in the output
\* record and returns success.
C8_CpuidProbe ==
    [][call'.op = "get_cpuid_subleaf" =>
         IF call'.leaf = 0
         THEN /\ call'.ret = FALSE
              /\ log' = <<>>
              /\ out' = out
         ELSE /\ call'.ret = TRUE
              /\ Len(log') = 1
              /\ log'[1].ins = "cpuid"
              /\ log'[1].a = call'.leaf
              /\ log'[1].c = call'.subleaf
              /\ out'.eax = log'[1].v.eax
              /\ out'.ebx = log'[1].v.ebx
              /\ out'.ecx = log'[1].v.ecx
              /\ out'.edx = log'[1].v.edx]_vars

\* a leaf-0 probe made after an earlier probe had filled the output record
C8_Witness ==
    /\ call.op = "get_cpuid_subleaf"
    /\ call.leaf = 0
    /\ call.ret = FALSE
    /\ out # NoOut

\* C9: extended_register_size() returns 512 when CPUID leaf 1 ECX bit 26 is
\* clear, without reading XCR0; when the bit is set it reads XCR0 and returns
\* 768 if XCR0 bit 2 (AVX) is set and 512 otherwise.
C9_ExtendedRegisterSize ==
    call.op = "extended_register_size" =>
        /\ log[1].ins = "cpuid"
        /\ log[1].a = 1
        /\ IF 26 \notin log[1].v.ecx
           THEN /\ Len(log) = 1
                /\ call.ret = 512
           ELSE /\ Len(log) = 2
                /\ log[2].ins = "xgetbv"
                /\ log[2].c = 0
                /\ log[2].v = xcr0
                /\ call.ret = (IF 2 \in xcr0 THEN 768 ELSE 512)

\* the size was asked on a CPU with XSAVE and AVX enabled in XCR0
C9_Witness ==
    /\ call.op = "extended_register_size"
    /\ 26 \in log[1].v.ecx
    /\ 2 \in xcr0
    /\ call.ret = 768

\* C10: pat_sync(1) performs no MSR read, no MSR write and no IPI and
\* leaves every register unchanged.
C10_PatSyncOneIsNoop ==
    [][(call'.op = "pat_sync" /\ call'.targets = 1) =>
         /\ log' = <<>>
         /\ UNCHANGED <<cr0, cr3, cr4, msr, xcr0, out>>]_vars

\* pat_sync(1) has been called
C10_Witness ==
    /\ call.op = "pat_sync"
    /\ call.targets = 1
    /\ log = <<>>

(***************************************************************************)
(* Claims about the pure functions (checked under SpecPure).               *)
(***************************************************************************)

\* C2: host round trip: for every portable flag set F within {0x1, 0x2, 0x4}
\* and every level L in 0..4, pt_flags_to_mmu_flags applied to
\* terminal_flags(L, F) returns exactly F.
C2_HostRoundTrip ==
    (/\ call.op = "mmu_pt_flags_to_mmu_flags"
     /\ prev.op = "mmu_terminal_flags"
     /\ call.flags = prev.ret
     /\ prev.flags \subseteq {0, 1, 2}
     /\ prev.level \in 0..4)
        => call.ret = prev.flags

\* the flags of a present, user, read-only leaf were decoded again
C2_Witness ==
    /\ call.op = "mmu_pt_flags_to_mmu_flags"
    /\ prev.op = "mmu_terminal_flags"
    /\ call.flags = prev.ret
    /\ prev.level \in 0..4
    /\ prev.flags = {0, 2}
    /\ call.ret = {0, 2}

EptRoundTrip ==
    /\ call.op = "ept_pt_flags_to_mmu_flags"
    /\ prev.op = "ept_terminal_flags"
    /\ call.flags = prev.ret
    /\ prev.flags \subseteq {0, 1, 2}

\* C3 as stated: EPT round trip: for every portable flag set F and level L,
\* ept_pt_flags_to_mmu_flags applied to ept_terminal_flags(L, F), masked
\* with 0x7, equals F.
C3_EptRoundTripExact ==
    EptRoundTrip => BitAnd(call.ret, Bits(7)) = prev.flags

\* C3 as amended: the EPT round trip, masked with 0x7, always contains
\* READ|WRITE (0x3) and contains no bit outside F | 0x3.
C3_EptRoundTripKeepsReadWrite ==
    EptRoundTrip =>
        /\ Bits(3) \subseteq BitAnd(call.ret, Bits(7))
        /\ BitAnd(call.ret, Bits(7)) \subseteq BitOr(prev.flags, Bits(3))

\* the EPT flags made from the empty portable set were decoded again
C3_Witness ==
    /\ EptRoundTrip
    /\ prev.flags = {}
    /\ call.ret = {0, 1}

\* C4: ept_terminal_flags(L, F) is 0x7 (R|W|X) when portable bit 0x4 is set
\* in F and 0x3 (R|W) when it is clear, for every level L.
C4_EptTerminalEncoding ==
    call.op = "ept_terminal_flags" =>
        call.ret = (IF 2 \in call.flags THEN {0, 1, 2} ELSE {0, 1})

SignExtensionOfBit47(v) == \A i \in 48..63 : (i \in v) <=> (47 \in v)

\* C5: is_canonical(v) is true exactly when bits [63:48] of v are all equal
\* to bit 47.
C5_CanonicalIsSignExtension ==
    call.op = "is_vaddr_canonical" =>
        (call.ret <=> SignExtensionOfBit47(call.vaddr))

\* C6: for every level L and every architectural flag value A,
\* split_flags(L, A) is A with the PS bit (0x080) cleared and every other
\* bit unchanged; hence split(L, terminal(L, F) | PS) = terminal(L, F).
C6_SplitClearsOnlyPs ==
    call.op = "mmu_split_flags" =>
        /\ call.ret = call.flags \ {7}
        /\ (/\ prev.op = "mmu_terminal_flags"
            /\ call.flags = prev.ret \cup {7})
               => call.ret = prev.ret

\* the terminal flags of a present, writable, user page, marked with PS,
\* were split
C6_Witness ==
    /\ call.op = "mmu_split_flags"
    /\ prev.op = "mmu_terminal_flags"
    /\ prev.flags = {0, 1, 2}
    /\ call.flags = {0, 1, 2, 7}
    /\ call.ret = {0, 1, 2}

\* C7: supports_page_size(L) is true iff L is 1 or 2, for every integer
\* level L, and the EPT predicate gives the same result.
C7_SupportsPageSize ==
    call.op \in {"mmu_supports_page_size", "ept_supports_page_size"} =>
        (call.ret <=> call.level \in {1, 2})

\* the EPT predicate was asked about level 3
C7_Witness ==
    /\ call.op = "ept_supports_page_size"
    /\ call.level = 3
    /\ call.ret = FALSE

(***************************************************************************)
(* Further claims about the register-touching operations (under Spec).     *)
(***************************************************************************)

\* C11: extended_register_init() leaves CR4 with bits 9 (OSFXSR) and 18
\* (OSXSAVE) set and every other CR4 bit as it was, and fninit is executed
\* only after the CR4 write.
C11_ExtendedRegisterInit ==
    call.op = "extended_register_init" =>
        /\ log[1].ins = "mov_from_cr4"
        /\ cr4 = log[1].v \cup {9, 18}
        /\ \E w \in DOMAIN log :
               /\ log[w].ins = "mov_to_cr4"
               /\ log[w].v = cr4
               /\ \A f \in DOMAIN log : log[f].ins = "fninit" => f > w
        /\ \E f \in DOMAIN log : log[f].ins = "fninit"

\* the initialisation ran on a CPU whose CR4 had OSFXSR and OSXSAVE clear
\* and another bit (PAE) set
C11_Witness ==
    /\ call.op = "extended_register_init"
    /\ log[1].v = {5}
    /\ cr4 = {5, 9, 18}
    /\ log[3].ins = "fninit"

\* C13: mmu_mem_type_init(): if the MTRR default-type MSR (0x2FF) has its
\* enable bit 0x800 set, the MSR is rewritten with its low 8 bits equal to 6
\* and every bit above bit 7 unchanged; if the enable bit is clear, no MSR
\* write is issued and the MSR keeps its value.
C13_MemTypeInit ==
    call.op = "mmu_mem_type_init" =>
        /\ log[1].ins = "rdmsr"
        /\ log[1].a = 767
        /\ IF 11 \in log[1].v
           THEN /\ Len(log) = 2
                /\ log[2].ins = "wrmsr"
                /\ log[2].a = 767
                /\ msr[767] = (log[1].v \ (0..7)) \cup {1, 2}
                /\ 11 \in msr[767]
           ELSE /\ Len(log) = 1
                /\ msr[767] = log[1].v

\* the default type was rewritten on a CPU whose MSR had all low 8 bits and
\* the fixed-range enable bit set
C13_Witness ==
    /\ call.op = "mmu_mem_type_init"
    /\ log[1].v = {0, 1, 2, 3, 4, 5, 6, 7, 10, 11}
    /\ msr[767] = {1, 2, 10, 11}

\* C14: once mmu_early_init() has completed (CR0.WP set and IA32_PAT equal
\* to 0x0007010600070106), every later operation of this layer keeps CR0.WP
\* set and IA32_PAT at that value, and no operation changes CR3 or a CR0 bit
\* other than WP.
C14_InitStateIsKept ==
    [][/\ (16 \in cr0 /\ msr[631] = PatExpected)
            => (16 \in cr0' /\ msr'[631] = PatExpected)
       /\ cr3' = cr3
       /\ cr0' \ {16} = cr0 \ {16}]_vars

\* WP and the default PAT are in place after the extended-register
\* initialisation and an MTRR default-type rewrite have run on top of them
C14_Witness ==
    /\ call.op = "mmu_mem_type_init"
    /\ Len(log) = 2
    /\ {9, 18} \subseteq cr4
    /\ cr0 = {0, 16}
    /\ msr[631] = PatExpected

(***************************************************************************)
(* Claim about the IPI halt handler (checked under SpecHalt).              *)
(***************************************************************************)

InHandler == pc \in {"cli", "hlt", "halted", "loop"}

\* C12: the IPI halt handler never returns: it disables interrupts before
\* its first halt, never re-enables them, and after every wake-up it
\* executes halt again.
C12_HaltHandlerNeverReturns ==
    /\ [](pc # "returned")
    /\ [](pc \in {"hlt", "halted", "loop"} =>
            (~intf /\ log # <<>> /\ log[1].ins = "cli"))
    /\ [](\A i \in DOMAIN log : i > 1 => log[i].ins = "hlt")
    /\ [][InHandler => InHandler']_vars
    /\ (pc = "loop" ~> pc = "halted")

\* the handler has been woken twice and is halted for the third time, with
\* interrupts disabled
C12_Witness ==
    /\ pc = "halted"
    /\ wakeups = 2
    /\ ~intf
    /\ Len(log) = 4

====
